---- MODULE Spec2Model ----
(***************************************************************************)
(* Model of src/image_logger.py: the AutoImageLogger process.              *)
(*                                                                         *)
(* Two execution contexts are modelled: the main thread (main(), the       *)
(* constructor, start(), the polling loop and the signal handler, which    *)
(* Python runs in the main thread) and the daemon loop thread              *)
(* (start_capture_loop and the pipeline capture_and_process).  Every       *)
(* statement that reads or writes shared state (running, capture_count,    *)
(* the session records) is a step of its own, so the interleavings of the  *)
(* two contexts are those of the program.  The environment (display,       *)
(* location service, disk, webhook endpoint, signals) is a                 *)
(* nondeterministic choice of the outcomes the code distinguishes.         *)
(***************************************************************************)
EXTENDS Integers, Sequences, FiniteSets, TLC

VARIABLES
    configFile,     \* the settings document on disk before the process starts
    config,         \* self.config (default_config until load_config has merged the file)
    mainPc,         \* position of the main thread
    sigPc,          \* position of signal_handler, which runs in the main thread
    signalled,      \* a termination signal has been delivered
    exitCode,       \* exit status of the process (NoExit while it is alive)
    running,        \* self.running
    capture_count,  \* self.capture_count
    startRecord,    \* session_logs/session_<id>.json has been written
    endRecord,      \* session_logs/session_<id>_end.json: NoRecord or its total_captures
    loop,           \* the loop thread: position and the state of its current iteration
    iterations,     \* number of loop iterations begun (calls of capture_and_process)
    failed,         \* number of iterations that ended without reaching the counter increment
    archive,        \* sequence of the archive writes: <<capture index, timestamp>>
    now,            \* seconds the loop thread has slept so far (its clock)
    delivered,      \* sequence of the capture numbers of the HTTP POSTs attempted
    enc,            \* one call of compress_image (the encoder on its own)
    api             \* a client of the class calling start() and stop() itself

vars == <<configFile, config, mainPc, sigPc, signalled, exitCode, running,
          capture_count, startRecord, endRecord, loop, iterations, failed,
          archive, now, delivered, enc, api>>

----------------------------------------------------------------------------
(* Bounds of the model *)

\* iterations of the scheduler loop that are explored
MaxIter == 3

\* largest max_captures a settings document sets
MaxCeiling == 2

(* Program constants *)

\* time.sleep(60) of the loop's error branch
ErrorPause == 60

\* default capture_interval
DefaultInterval == 300

\* default start_delay
DefaultStartDelay == 10

\* the process is alive: it has no exit status yet
NoExit == -1

\* the session-end record has not been written
NoRecord == -1

----------------------------------------------------------------------------
(* Configuration: load_config *)

Keys == {"webhook_url", "capture_interval", "max_captures", "save_locally",
         "capture_location", "start_delay"}

\* default_config, restricted to the fields the loop and the pipeline read
default_config ==
    [webhook_url      |-> "",
     capture_interval |-> DefaultInterval,
     max_captures     |-> 0,
     save_locally     |-> TRUE,
     capture_location |-> TRUE,
     start_delay      |-> DefaultStartDelay]

\* default_config.update(user_config): a key of the document replaces the default
Update(d, u) ==
    [webhook_url      |-> IF "webhook_url" \in u.keys
                          THEN u.webhook_url ELSE d.webhook_url,
     capture_interval |-> IF "capture_interval" \in u.keys
                          THEN u.capture_interval ELSE d.capture_interval,
     max_captures     |-> IF "max_captures" \in u.keys
                          THEN u.max_captures ELSE d.max_captures,
     save_locally     |-> IF "save_locally" \in u.keys
                          THEN u.save_locally ELSE d.save_locally,
     capture_location |-> IF "capture_location" \in u.keys
                          THEN u.capture_location ELSE d.capture_location,
     start_delay      |-> IF "start_delay" \in u.keys
                          THEN u.start_delay ELSE d.start_delay]

\* The settings documents explored: u.keys are the keys the JSON object has, the
\* other fields their values (a key that is absent carries the default's value, so
\* that each document is listed once).
Documents ==
    {u \in [keys             : SUBSET Keys,
            webhook_url      : {"", "https://hook"},
            capture_interval : {-1, DefaultInterval},
            max_captures     : 0..MaxCeiling,
            save_locally     : BOOLEAN,
            capture_location : BOOLEAN,
            start_delay      : {0, DefaultStartDelay}] :
        /\ "webhook_url" \in u.keys \/ u.webhook_url = ""
        /\ ("capture_interval" \in u.keys) = (u.capture_interval # DefaultInterval)
        /\ ("max_captures" \in u.keys) = (u.max_captures # 0)
        /\ ("save_locally" \in u.keys) = ~u.save_locally
        /\ ("capture_location" \in u.keys) = ~u.capture_location
        /\ ("start_delay" \in u.keys) = (u.start_delay # DefaultStartDelay)}

\* the file at config_path: missing, not JSON, or a JSON object (a file that
\* is missing or not JSON contributes no key: doc is the empty document)
ConfigFiles ==
    {[state |-> "absent", doc |-> d] : d \in {u \in Documents : u.keys = {}}}
    \cup {[state |-> "unparsable", doc |-> d] : d \in {u \in Documents : u.keys = {}}}
    \cup {[state |-> "ok", doc |-> u] : u \in Documents}

\* load_config up to the webhook check: the merged configuration
Merged(file) ==
    IF file.state = "ok" THEN Update(default_config, file.doc)
    ELSE default_config

\* mutant: the webhook check is left out
WebhookMissing_unchecked(cfg) == FALSE

\* `if not default_config['webhook_url']`
WebhookMissing(cfg) == cfg.webhook_url = ""

\* json.dump(default_config, f): the document load_config writes back
Persisted(cfg) ==
    [keys             |-> Keys,
     webhook_url      |-> cfg.webhook_url,
     capture_interval |-> cfg.capture_interval,
     max_captures     |-> cfg.max_captures,
     save_locally     |-> cfg.save_locally,
     capture_location |-> cfg.capture_location,
     start_delay      |-> cfg.start_delay]

\* the placeholder document main() creates when there is no file
Placeholder ==
    Persisted([default_config EXCEPT !.webhook_url = "YOUR_DISCORD_WEBHOOK_URL_HERE"])

----------------------------------------------------------------------------
(* The encoder and the class used as a library are explored on their own, by
   EncoderSpec and ApiSpec below; in the program's specification they rest *)

\* no call of compress_image is being explored
IdleEnc ==
    [pc       |-> "idle",   \* position in compress_image
     weight   |-> 0,        \* the image: bytes of its encoding per quality point
     max_size_mb |-> 0,     \* the parameter max_size_mb
     start    |-> 0,        \* config['image_quality']
     quality  |-> 0,        \* the local variable quality
     bytes    |-> 0,        \* output.tell(): size of the buffer in `output`
     produced |-> {}]       \* the qualities at which image.save() was called

\* no client is calling the class
IdleApi ==
    [starter |-> "idle",    \* the thread that calls start(): idle or blocked in it
     stopper |-> "idle",    \* the thread that calls stop(): idle or in its join
     starts  |-> 0,         \* calls of start() that created a thread
     exited  |-> FALSE,     \* sys.exit(0) of the signal handler has run
     workers |-> << >>]     \* the loop threads created, each with its position

----------------------------------------------------------------------------
(* Initial state: the process has not run yet *)

\* the loop thread before start() creates it
IdleLoop ==
    [pc        |-> "idle",   \* position in start_capture_loop / capture_and_process
     loc       |-> "none",   \* location_info of the current iteration
     outcome   |-> "none",   \* how the current (or last) iteration went
     prev      |-> "none",   \* at "capture": outcome of the iteration before
     lastSleep |-> "none",   \* at "while" and "capture": the sleep just taken
     entryCount |-> 0,       \* capture_count when the current iteration began
     nCapture  |-> 0,        \* capture attempts of the current iteration
     nArchive  |-> 0,        \* archive write attempts of the current iteration
     nPost     |-> 0]        \* HTTP POSTs of the current iteration

\* the state of a process that has not run yet, whatever its settings file
Fresh ==
    /\ mainPc = "main"
    /\ sigPc = "none"
    /\ signalled = FALSE
    /\ exitCode = NoExit
    /\ running = FALSE
    /\ capture_count = 0
    /\ startRecord = FALSE
    /\ endRecord = NoRecord
    /\ loop = IdleLoop
    /\ iterations = 0
    /\ failed = 0
    /\ archive = << >>
    /\ now = 0
    /\ delivered = << >>

Init ==
    /\ configFile \in ConfigFiles
    /\ config = default_config
    /\ Fresh
    /\ enc = IdleEnc
    /\ api = IdleApi

Alive == exitCode = NoExit

\* the main thread executes its own code: it is not inside the signal handler
MainRuns == Alive /\ sigPc = "none"

\* sys.exit(code), or the interpreter ending: the daemon loop thread dies with it
Exit(code) ==
    /\ exitCode' = code
    /\ mainPc' = "exited"

----------------------------------------------------------------------------
(* Main thread: main(), __init__, start() *)

\* main(): without a config file it writes the placeholder and exits 1
main ==
    /\ MainRuns
    /\ mainPc = "main"
    /\ IF configFile.state = "absent"
       THEN /\ configFile' = [state |-> "ok", doc |-> Placeholder]
            /\ Exit(1)
       ELSE /\ mainPc' = "construct"
            /\ UNCHANGED <<configFile, exitCode>>
    /\ UNCHANGED <<config, sigPc, signalled, running, capture_count, startRecord,
                   endRecord, loop, iterations, failed, archive, now>>
    /\ UNCHANGED <<delivered, enc, api>>

\* __init__ with load_config: merge, check the webhook, write back; then the
\* fields and the signal handlers
load_config ==
    /\ MainRuns
    /\ mainPc = "construct"
    /\ IF WebhookMissing(Merged(configFile))
       THEN /\ Exit(1)
            /\ UNCHANGED <<configFile, config, running, capture_count>>
       ELSE /\ config' = Merged(configFile)
            /\ configFile' = [state |-> "ok", doc |-> Persisted(Merged(configFile))]
            /\ running' = FALSE
            /\ capture_count' = 0
            /\ mainPc' = "start"
            /\ UNCHANGED exitCode
    /\ UNCHANGED <<sigPc, signalled, startRecord, endRecord, loop, iterations,
                   failed, archive, now>>
    /\ UNCHANGED <<delivered, enc, api>>

\* start(): `self.running = True` (the guard `if self.running` is false here)
start_flag ==
    /\ MainRuns
    /\ mainPc = "start"
    /\ ~running
    /\ running' = TRUE
    /\ mainPc' = "write_start"
    /\ UNCHANGED <<configFile, config, sigPc, signalled, exitCode, capture_count,
                   startRecord, endRecord, loop, iterations, failed, archive, now>>
    /\ UNCHANGED <<delivered, enc, api>>

\* mutant: a failing write of the start record is swallowed and start() goes on
start_record_failure_ignored ==
    /\ MainRuns
    /\ mainPc = "write_start"
    /\ mainPc' = "spawn"
    /\ \/ startRecord' = TRUE
       \/ UNCHANGED startRecord
    /\ UNCHANGED <<configFile, config, sigPc, signalled, exitCode, running,
                   capture_count, endRecord, loop, iterations, failed, archive,
                   now>>
    /\ UNCHANGED <<delivered, enc, api>>

\* start(): the session-start record; a failing open() or dump leaves start()
\* through main()'s handler and the process ends with a non-zero status
start_record ==
    /\ MainRuns
    /\ mainPc = "write_start"
    /\ \/ /\ startRecord' = TRUE
          /\ mainPc' = "spawn"
          /\ UNCHANGED exitCode
       \/ /\ Exit(1)
          /\ UNCHANGED startRecord
    /\ UNCHANGED <<configFile, config, sigPc, signalled, running, capture_count,
                   endRecord, loop, iterations, failed, archive, now>>
    /\ UNCHANGED <<delivered, enc, api>>

\* start(): threading.Thread(target=self.start_capture_loop).start()
start_thread ==
    /\ MainRuns
    /\ mainPc = "spawn"
    /\ loop' = [loop EXCEPT !.pc = "delay"]
    /\ mainPc' = "poll"
    /\ UNCHANGED <<configFile, config, sigPc, signalled, exitCode, running,
                   capture_count, startRecord, endRecord, iterations, failed,
                   archive, now>>
    /\ UNCHANGED <<delivered, enc, api>>

\* start(): `while self.running: time.sleep(1)`; when the flag is down start()
\* and main() return and the process ends
start_poll ==
    /\ MainRuns
    /\ mainPc = "poll"
    /\ ~running
    /\ Exit(0)
    /\ UNCHANGED <<configFile, config, sigPc, signalled, running, capture_count,
                   startRecord, endRecord, loop, iterations, failed, archive, now>>
    /\ UNCHANGED <<delivered, enc, api>>

----------------------------------------------------------------------------
(* Termination signal: signal_handler runs stop() and sys.exit(0) in the main
   thread, between two of its instructions *)

\* SIGINT or SIGTERM arrives once the handlers are installed (end of __init__)
signal_handler ==
    /\ MainRuns
    /\ mainPc \in {"start", "write_start", "spawn", "poll"}
    /\ ~signalled
    /\ signalled' = TRUE
    /\ sigPc' = "stop_flag"
    /\ UNCHANGED <<configFile, config, mainPc, exitCode, running, capture_count,
                   startRecord, endRecord, loop, iterations, failed, archive, now>>
    /\ UNCHANGED <<delivered, enc, api>>

\* stop() in the handler: `self.running = False`
signal_stop_flag ==
    /\ Alive
    /\ sigPc = "stop_flag"
    /\ running' = FALSE
    /\ sigPc' = "stop_record"
    /\ UNCHANGED <<configFile, config, mainPc, signalled, exitCode, capture_count,
                   startRecord, endRecord, loop, iterations, failed, archive, now>>
    /\ UNCHANGED <<delivered, enc, api>>

\* stop() in the handler: the session-end record with the counter as it is now
signal_stop_record ==
    /\ Alive
    /\ sigPc = "stop_record"
    /\ endRecord' = capture_count
    /\ sigPc' = "stop_join"
    /\ UNCHANGED <<configFile, config, mainPc, signalled, exitCode, running,
                   capture_count, startRecord, loop, iterations, failed, archive,
                   now>>
    /\ UNCHANGED <<delivered, enc, api>>

\* stop() in the handler: capture_thread.join(timeout=10) returns when the
\* thread has ended or the 10 s are over (the thread may be in a sleep or a
\* request that lasts longer); then sys.exit(0)
signal_stop_join ==
    /\ Alive
    /\ sigPc = "stop_join"
    /\ sigPc' = "done"
    /\ Exit(0)
    /\ UNCHANGED <<configFile, config, signalled, running, capture_count,
                   startRecord, endRecord, loop, iterations, failed, archive, now>>
    /\ UNCHANGED <<delivered, enc, api>>

----------------------------------------------------------------------------
(* Loop thread: start_capture_loop *)

\* the loop thread executes: it was started and the process is alive
LoopAt(p) == Alive /\ loop.pc = p

\* the initial delay
loop_start_delay ==
    /\ LoopAt("delay")
    /\ IF config.start_delay > 0
       THEN /\ now' = now + config.start_delay
            /\ loop' = [loop EXCEPT !.pc = "while", !.lastSleep = "delay"]
       ELSE /\ loop' = [loop EXCEPT !.pc = "while"]
            /\ UNCHANGED now
    /\ UNCHANGED <<configFile, config, mainPc, sigPc, signalled, exitCode, running,
                   capture_count, startRecord, endRecord, iterations, failed,
                   archive>>
    /\ UNCHANGED <<delivered, enc, api>>

\* `while self.running:` true: an iteration begins with capture_and_process()
loop_while_enter ==
    /\ LoopAt("while")
    /\ running
    /\ iterations < MaxIter
    /\ iterations' = iterations + 1
    /\ loop' = [loop EXCEPT !.pc = "capture", !.prev = loop.outcome,
                            !.outcome = "none", !.loc = "none",
                            !.entryCount = capture_count, !.nCapture = 0, !.nArchive = 0, !.nPost = 0]
    /\ UNCHANGED <<configFile, config, mainPc, sigPc, signalled, exitCode, running,
                   capture_count, startRecord, endRecord, failed, archive, now>>
    /\ UNCHANGED <<delivered, enc, api>>

\* `while self.running:` false: start_capture_loop returns, the thread ends
loop_while_exit ==
    /\ LoopAt("while")
    /\ ~running
    /\ loop' = [loop EXCEPT !.pc = "done"]
    /\ UNCHANGED <<configFile, config, mainPc, sigPc, signalled, exitCode, running,
                   capture_count, startRecord, endRecord, iterations, failed,
                   archive, now>>
    /\ UNCHANGED <<delivered, enc, api>>

\* mutant: the ceiling test is `>` instead of `>=`
loop_ceiling_off_by_one ==
    /\ LoopAt("ceiling")
    /\ IF config.max_captures > 0 /\ capture_count > config.max_captures
       THEN loop' = [loop EXCEPT !.pc = "stop_flag"]
       ELSE loop' = [loop EXCEPT !.pc = "sleep"]
    /\ UNCHANGED <<configFile, config, mainPc, sigPc, signalled, exitCode, running,
                   capture_count, startRecord, endRecord, iterations, failed,
                   archive, now>>
    /\ UNCHANGED <<delivered, enc, api>>

\* the ceiling check after capture_and_process() has returned
loop_ceiling ==
    /\ LoopAt("ceiling")
    /\ IF config.max_captures > 0 /\ capture_count >= config.max_captures
       THEN loop' = [loop EXCEPT !.pc = "stop_flag"]
       ELSE loop' = [loop EXCEPT !.pc = "sleep"]
    /\ UNCHANGED <<configFile, config, mainPc, sigPc, signalled, exitCode, running,
                   capture_count, startRecord, endRecord, iterations, failed,
                   archive, now>>
    /\ UNCHANGED <<delivered, enc, api>>

\* stop() called by the loop at the ceiling: `self.running = False`
stop_flag ==
    /\ LoopAt("stop_flag")
    /\ running' = FALSE
    /\ loop' = [loop EXCEPT !.pc = "stop_record"]
    /\ UNCHANGED <<configFile, config, mainPc, sigPc, signalled, exitCode,
                   capture_count, startRecord, endRecord, iterations, failed,
                   archive, now>>
    /\ UNCHANGED <<delivered, enc, api>>

\* stop() called by the loop: the session-end record
stop_record ==
    /\ LoopAt("stop_record")
    /\ endRecord' = capture_count
    /\ loop' = [loop EXCEPT !.pc = "stop_join"]
    /\ UNCHANGED <<configFile, config, mainPc, sigPc, signalled, exitCode, running,
                   capture_count, startRecord, iterations, failed, archive, now>>
    /\ UNCHANGED <<delivered, enc, api>>

\* stop() called by the loop: capture_thread.join() on the current thread
\* raises RuntimeError, which the loop's `except Exception` catches
stop_join ==
    /\ LoopAt("stop_join")
    /\ loop' = [loop EXCEPT !.pc = "pause"]
    /\ UNCHANGED <<configFile, config, mainPc, sigPc, signalled, exitCode, running,
                   capture_count, startRecord, endRecord, iterations, failed,
                   archive, now>>
    /\ UNCHANGED <<delivered, enc, api>>

\* time.sleep(capture_interval); a negative interval raises ValueError, which
\* the loop's `except Exception` catches
loop_sleep ==
    /\ LoopAt("sleep")
    /\ IF config.capture_interval < 0
       THEN /\ loop' = [loop EXCEPT !.pc = "pause"]
            /\ UNCHANGED now
       ELSE /\ now' = now + config.capture_interval
            /\ loop' = [loop EXCEPT !.pc = "while", !.lastSleep = "interval"]
    /\ UNCHANGED <<configFile, config, mainPc, sigPc, signalled, exitCode, running,
                   capture_count, startRecord, endRecord, iterations, failed,
                   archive>>
    /\ UNCHANGED <<delivered, enc, api>>

\* mutant: the loop's handler leaves the loop (a `break` in the except branch)
loop_error_pause_breaks ==
    /\ LoopAt("pause")
    /\ now' = now + ErrorPause
    /\ loop' = [loop EXCEPT !.pc = "done", !.lastSleep = "pause"]
    /\ UNCHANGED <<configFile, config, mainPc, sigPc, signalled, exitCode, running,
                   capture_count, startRecord, endRecord, iterations, failed,
                   archive>>
    /\ UNCHANGED <<delivered, enc, api>>

\* the loop's `except Exception`: time.sleep(60), then the loop condition again
loop_error_pause ==
    /\ LoopAt("pause")
    /\ now' = now + ErrorPause
    /\ loop' = [loop EXCEPT !.pc = "while", !.lastSleep = "pause"]
    /\ UNCHANGED <<configFile, config, mainPc, sigPc, signalled, exitCode, running,
                   capture_count, startRecord, endRecord, iterations, failed,
                   archive>>
    /\ UNCHANGED <<delivered, enc, api>>

----------------------------------------------------------------------------
(* Loop thread: the pipeline capture_and_process *)

\* what the pipeline steps leave alone
PipelineFrame ==
    UNCHANGED <<configFile, config, mainPc, sigPc, signalled, exitCode, running,
                startRecord, endRecord, iterations, now, enc, api>>

\* mutant: a failed capture does not end the iteration (the `return` is missing)
capture_screenshot_no_return ==
    /\ LoopAt("capture")
    /\ \/ /\ loop' = [loop EXCEPT !.pc = "location", !.nCapture = @ + 1,
                                  !.prev = "none", !.lastSleep = "none"]
          /\ UNCHANGED failed
       \/ /\ loop' = [loop EXCEPT !.pc = "location", !.nCapture = @ + 1,
                                  !.prev = "none", !.lastSleep = "none",
                                  !.outcome = "capture_failed"]
          /\ failed' = failed + 1
    /\ PipelineFrame
    /\ UNCHANGED <<capture_count, archive>>
    /\ UNCHANGED delivered

\* capture_screenshot(): ImageGrab.grab() gives an image, or raises and the
\* function returns None; capture_and_process then returns at once
capture_screenshot ==
    /\ LoopAt("capture")
    /\ \/ /\ loop' = [loop EXCEPT !.pc = "location", !.nCapture = @ + 1,
                                  !.prev = "none", !.lastSleep = "none"]
          /\ UNCHANGED failed
       \/ /\ loop' = [loop EXCEPT !.pc = "ceiling", !.nCapture = @ + 1,
                                  !.prev = "none", !.lastSleep = "none",
                                  !.outcome = "capture_failed"]
          /\ failed' = failed + 1
    /\ PipelineFrame
    /\ UNCHANGED <<capture_count, archive>>
    /\ UNCHANGED delivered

\* the records get_location_data() can return when capture_location is on:
\* a success record with coordinates, a success record of ip-api.com whose
\* body has no lat/lon (data.get gives None), or a failure-tagged record
LocationResults == {"success", "success_no_coords", "failure_tag"}

\* get_system_info() (never raises) and get_location_data()
get_location_data ==
    /\ LoopAt("location")
    /\ IF config.capture_location
       THEN \E r \in LocationResults :
                loop' = [loop EXCEPT !.pc = "archive", !.loc = r]
       ELSE loop' = [loop EXCEPT !.pc = "archive"]
    /\ PipelineFrame
    /\ UNCHANGED <<capture_count, failed, archive>>
    /\ UNCHANGED delivered

\* the name save_locally() gives the file: session id (one per process),
\* zero-padded capture index, timestamp to the second
Filename(index, time) == <<index, time>>

\* save_locally(): nothing when disabled; else image.save() under the name
\* built from the counter, which succeeds or raises (logged, None returned)
save_locally ==
    /\ LoopAt("archive")
    /\ IF config.save_locally
       THEN /\ loop' = [loop EXCEPT !.pc = "encode", !.nArchive = @ + 1]
            /\ \/ archive' = Append(archive, Filename(capture_count, now))
               \/ UNCHANGED archive
       ELSE /\ loop' = [loop EXCEPT !.pc = "encode"]
            /\ UNCHANGED archive
    /\ PipelineFrame
    /\ UNCHANGED <<capture_count, failed>>
    /\ UNCHANGED delivered

\* mutant: capture_and_process has no try/except, the exception reaches the
\* loop's `except Exception`
compress_image_uncaught ==
    /\ LoopAt("encode")
    /\ \/ /\ loop' = [loop EXCEPT !.pc = "send"]
          /\ UNCHANGED failed
       \/ /\ loop' = [loop EXCEPT !.pc = "pause", !.outcome = "raised",
                                  !.loc = "none"]
          /\ failed' = failed + 1
    /\ PipelineFrame
    /\ UNCHANGED <<capture_count, archive>>
    /\ UNCHANGED delivered

\* compress_image(): returns the buffer, or image.save() raises and the
\* `except Exception` of capture_and_process ends the iteration
compress_image ==
    /\ LoopAt("encode")
    /\ \/ /\ loop' = [loop EXCEPT !.pc = "send"]
          /\ UNCHANGED failed
       \/ /\ loop' = [loop EXCEPT !.pc = "ceiling", !.outcome = "raised",
                                  !.loc = "none"]
          /\ failed' = failed + 1
    /\ PipelineFrame
    /\ UNCHANGED <<capture_count, archive>>
    /\ UNCHANGED delivered

\* create_discord_embed(): formatting `{lat:.6f}` raises TypeError for a success
\* record whose latitude is None
EmbedRaises(loc) == loc = "success_no_coords"

\* what requests.post() can do: 200/204, another status, or raise
PostResults == {"delivered", "http_error", "transport_error"}

\* the capture number a delivery carries: the filename of line 380 and the
\* embed footer are built from self.capture_count
CaptureNumber == capture_count

\* mutant: send_to_discord has no try/except, a transport exception reaches the
\* handler of capture_and_process and the iteration ends before the increment
send_to_discord_uncaught ==
    /\ LoopAt("send")
    /\ IF EmbedRaises(loop.loc)
       THEN /\ loop' = [loop EXCEPT !.pc = "ceiling", !.outcome = "embed_error",
                                    !.loc = "none"]
            /\ failed' = failed + 1
            /\ UNCHANGED delivered
       ELSE \E r \in PostResults :
                /\ delivered' = Append(delivered, CaptureNumber)
                /\ loop' = [loop EXCEPT !.pc = IF r = "transport_error"
                                               THEN "ceiling" ELSE "increment",
                                        !.outcome = r, !.loc = "none",
                                        !.nPost = @ + 1]
                /\ failed' = IF r = "transport_error" THEN failed + 1 ELSE failed
    /\ PipelineFrame
    /\ UNCHANGED <<capture_count, archive>>

\* send_to_discord(): builds the payload and posts it once; everything it
\* raises, the embed's TypeError included, is caught and logged inside it
send_to_discord ==
    /\ LoopAt("send")
    /\ IF EmbedRaises(loop.loc)
       THEN /\ loop' = [loop EXCEPT !.pc = "increment", !.outcome = "embed_error",
                                    !.loc = "none"]
            /\ UNCHANGED delivered
       ELSE \E r \in PostResults :
                /\ loop' = [loop EXCEPT !.pc = "increment", !.outcome = r,
                                        !.loc = "none", !.nPost = @ + 1]
                /\ delivered' = Append(delivered, CaptureNumber)
    /\ PipelineFrame
    /\ UNCHANGED <<capture_count, failed, archive>>

\* mutant: the counter counts only the captures the endpoint accepted
increment_delivered_only ==
    /\ LoopAt("increment")
    /\ capture_count' = IF loop.outcome = "delivered" THEN capture_count + 1
                        ELSE capture_count
    /\ loop' = [loop EXCEPT !.pc = "ceiling"]
    /\ PipelineFrame
    /\ UNCHANGED <<failed, archive>>
    /\ UNCHANGED delivered

\* `self.capture_count += 1`, the last statement of a completed iteration
increment ==
    /\ LoopAt("increment")
    /\ capture_count' = capture_count + 1
    /\ loop' = [loop EXCEPT !.pc = "ceiling"]
    /\ PipelineFrame
    /\ UNCHANGED <<failed, archive>>
    /\ UNCHANGED delivered

----------------------------------------------------------------------------
(* The program *)

Next ==
    \/ main
    \/ load_config
    \/ start_flag
    \/ start_record
    \/ start_thread
    \/ start_poll
    \/ signal_handler
    \/ signal_stop_flag
    \/ signal_stop_record
    \/ signal_stop_join
    \/ loop_start_delay
    \/ loop_while_enter
    \/ loop_while_exit
    \/ capture_screenshot
    \/ get_location_data
    \/ save_locally
    \/ compress_image
    \/ send_to_discord
    \/ increment
    \/ loop_ceiling
    \/ stop_flag
    \/ stop_record
    \/ stop_join
    \/ loop_sleep
    \/ loop_error_pause

Spec == Init /\ [][Next]_vars

\* the steps of the loop thread
LoopStep ==
    \/ loop_start_delay
    \/ loop_while_enter
    \/ loop_while_exit
    \/ capture_screenshot
    \/ get_location_data
    \/ save_locally
    \/ compress_image
    \/ send_to_discord
    \/ increment
    \/ loop_ceiling
    \/ stop_flag
    \/ stop_record
    \/ stop_join
    \/ loop_sleep
    \/ loop_error_pause

\* the steps of the main thread, signal handler included (the signal itself is
\* the environment's)
MainStep ==
    \/ main
    \/ load_config
    \/ start_flag
    \/ start_record
    \/ start_thread
    \/ start_poll
    \/ signal_stop_flag
    \/ signal_stop_record
    \/ signal_stop_join

\* Both threads keep being scheduled: every sleep and every request of the
\* loop thread is bounded (sleep lengths, timeout=...), and the main thread
\* polls once a second.  Nothing is assumed about the outcomes the environment
\* produces.
FairSpec == Spec /\ WF_vars(LoopStep) /\ WF_vars(MainStep)

----------------------------------------------------------------------------
(* The encoder on its own: one call of compress_image(image, max_size_mb) for
   every image, ceiling and configured quality of the sets below.  An image is
   given by the size of its JPEG encoding, taken as proportional to the
   quality: weight bytes per quality point. *)

QualityFloor == 10
QualityStep == 10
DefaultQuality == 85
DefaultMaxSizeMb == 8

\* bytes in the unit of max_size_mb
Mebibyte == 1024 * 1024

\* images, from one that fits at any quality to one that fits at none
ImageWeights == {1000, 100000, 600000, 2000000}

\* values of config['image_quality']
StartQualities == {5, 10, 20, 50, DefaultQuality, 90, 100}

\* values of config['max_image_size_mb']
MaxSizes == {1, DefaultMaxSizeMb}

\* output.tell() after image.save(output, format='JPEG', quality=q)
EncodedSize(weight, q) == weight * q

\* the test of the while loop
TooLarge(e) == e.bytes > e.max_size_mb * Mebibyte /\ e.quality > QualityFloor

EncoderFrame ==
    UNCHANGED <<configFile, config, mainPc, sigPc, signalled, exitCode, running,
                capture_count, startRecord, endRecord, loop, iterations, failed,
                archive, now, delivered, api>>

\* quality = self.config['image_quality'] and the first image.save
compress_image_save ==
    /\ enc.pc = "save"
    /\ enc' = [enc EXCEPT !.pc = "test",
                          !.quality = enc.start,
                          !.bytes = EncodedSize(enc.weight, enc.start),
                          !.produced = {enc.start}]
    /\ EncoderFrame

\* one turn of the while loop: quality -= 10 and image.save again
compress_image_reduce ==
    /\ enc.pc = "test"
    /\ TooLarge(enc)
    /\ enc' = [enc EXCEPT !.quality = enc.quality - QualityStep,
                          !.bytes = EncodedSize(enc.weight, enc.quality - QualityStep),
                          !.produced = @ \cup {enc.quality - QualityStep}]
    /\ EncoderFrame

\* the loop ends; output.seek(0); return output
compress_image_return ==
    /\ enc.pc = "test"
    /\ ~TooLarge(enc)
    /\ enc' = [enc EXCEPT !.pc = "done"]
    /\ EncoderFrame

EncoderInit ==
    /\ configFile \in {f \in ConfigFiles : f.state = "absent"}
    /\ config = default_config
    /\ Fresh
    /\ api = IdleApi
    /\ enc \in [pc : {"save"}, weight : ImageWeights, max_size_mb : MaxSizes,
                 start : StartQualities, quality : {0}, bytes : {0},
                 produced : {{}}]

EncoderNext ==
    \/ compress_image_save
    \/ compress_image_reduce
    \/ compress_image_return

EncoderSpec == EncoderInit /\ [][EncoderNext]_vars

----------------------------------------------------------------------------
(* The class used as a library: an AutoImageLogger constructed from a settings
   file that gives the endpoint and nothing else, and client threads that call
   start() and stop() on it; the handlers installed by __init__ still answer a
   termination signal.  Each loop thread is followed through the positions of
   start_capture_loop; start() and stop() are taken as one step each up to the
   point where they block. *)

MaxStarts == 2

WorkerAt(i, p) ==
    /\ ~api.exited
    /\ i \in DOMAIN api.workers
    /\ api.workers[i] = p

ApiFrame ==
    UNCHANGED <<configFile, config, mainPc, sigPc, signalled, exitCode, loop,
                failed, archive, now, delivered, enc>>

\* start(): past the `if self.running` test (with the flag up it returns at
\* once and changes nothing), raise the flag, write the start record, create
\* and start the thread, then block in `while self.running: time.sleep(1)`
api_start ==
    /\ ~api.exited
    /\ api.starter = "idle"
    /\ ~running
    /\ api.starts < MaxStarts
    /\ running' = TRUE
    /\ startRecord' = TRUE
    /\ api' = [api EXCEPT !.starter = "blocked",
                          !.starts = @ + 1,
                          !.workers = Append(@, "delay")]
    /\ ApiFrame
    /\ UNCHANGED <<capture_count, endRecord, iterations>>

\* start(): the poll sees the flag down and start() returns
api_start_return ==
    /\ ~api.exited
    /\ api.starter = "blocked"
    /\ ~running
    /\ api' = [api EXCEPT !.starter = "idle"]
    /\ ApiFrame
    /\ UNCHANGED <<running, capture_count, startRecord, endRecord, iterations>>

\* stop() called by a client thread: lower the flag, write the end record,
\* then wait in capture_thread.join(timeout=10)
api_stop ==
    /\ ~api.exited
    /\ api.stopper = "idle"
    /\ api.starts > 0
    /\ running' = FALSE
    /\ endRecord' = capture_count
    /\ api' = [api EXCEPT !.stopper = "join"]
    /\ ApiFrame
    /\ UNCHANGED <<capture_count, startRecord, iterations>>

\* stop(): the join returns, because the thread ended or because the 10 s ran
\* out while the thread is still in its pipeline or its sleep
api_stop_join ==
    /\ ~api.exited
    /\ api.stopper = "join"
    /\ api' = [api EXCEPT !.stopper = "idle"]
    /\ ApiFrame
    /\ UNCHANGED <<running, capture_count, startRecord, endRecord, iterations>>

\* signal_handler: stop() and sys.exit(0), which ends the daemon threads
api_signal ==
    /\ ~api.exited
    /\ api.starts > 0
    /\ running' = FALSE
    /\ endRecord' = capture_count
    /\ api' = [api EXCEPT !.exited = TRUE]
    /\ ApiFrame
    /\ UNCHANGED <<capture_count, startRecord, iterations>>

\* start_capture_loop: the start delay
api_worker_delay(i) ==
    /\ WorkerAt(i, "delay")
    /\ api' = [api EXCEPT !.workers[i] = "while"]
    /\ ApiFrame
    /\ UNCHANGED <<running, capture_count, startRecord, endRecord, iterations>>

\* `while self.running`: into capture_and_process, or out of the loop
api_worker_while(i) ==
    /\ WorkerAt(i, "while")
    /\ IF running
       THEN /\ iterations < MaxIter
            /\ iterations' = iterations + 1
            /\ api' = [api EXCEPT !.workers[i] = "pipeline"]
       ELSE /\ api' = [api EXCEPT !.workers[i] = "done"]
            /\ UNCHANGED iterations
    /\ ApiFrame
    /\ UNCHANGED <<running, capture_count, startRecord, endRecord>>

\* capture_and_process runs to its end (the ceiling is not configured)
api_worker_pipeline(i) ==
    /\ WorkerAt(i, "pipeline")
    /\ capture_count' = capture_count + 1
    /\ api' = [api EXCEPT !.workers[i] = "sleep"]
    /\ ApiFrame
    /\ UNCHANGED <<running, startRecord, endRecord, iterations>>

\* time.sleep(capture_interval) is over
api_worker_sleep(i) ==
    /\ WorkerAt(i, "sleep")
    /\ api' = [api EXCEPT !.workers[i] = "while"]
    /\ ApiFrame
    /\ UNCHANGED <<running, capture_count, startRecord, endRecord, iterations>>

ApiInit ==
    /\ configFile \in {f \in ConfigFiles : /\ f.state = "ok"
                                            /\ f.doc.keys = {"webhook_url"}
                                            /\ f.doc.webhook_url # ""}
    /\ config = Merged(configFile)
    /\ Fresh
    /\ enc = IdleEnc
    /\ api = IdleApi

ApiNext ==
    \/ api_start
    \/ api_start_return
    \/ api_stop
    \/ api_stop_join
    \/ api_signal
    \/ \E i \in 1..MaxStarts :
          \/ api_worker_delay(i)
          \/ api_worker_while(i)
          \/ api_worker_pipeline(i)
          \/ api_worker_sleep(i)

ApiSpec == ApiInit /\ [][ApiNext]_vars

----------------------------------------------------------------------------
(* Vocabulary of the properties *)

\* the current iteration's call of capture_and_process has returned
IterationOver ==
    /\ iterations > 0
    /\ loop.pc \in {"ceiling", "stop_flag", "stop_record", "stop_join", "sleep",
                    "pause", "while", "done"}

\* the loop is inside stop(), which it called because the ceiling was reached
CeilingStop == loop.pc \in {"stop_flag", "stop_record", "stop_join"}

\* the ceiling is configured and the counter has reached it
CeilingReached ==
    config.max_captures > 0 /\ capture_count >= config.max_captures

\* outcomes of an iteration in which the delivery step was reached
DeliveryOutcomes == {"delivered", "http_error", "transport_error", "embed_error"}

----------------------------------------------------------------------------
(* C1 *)

\* the settings file gives no endpoint: its merge with the defaults has an
\* empty webhook_url, or it is the placeholder main() wrote because there was
\* no file
NoEndpoint ==
    \/ Merged(configFile).webhook_url = ""
    \/ configFile.doc = Placeholder

\* C1: with a missing or empty webhook_url after the merge (absent or
\* unparsable file included) the process never gets past construction: it can
\* only exit, with status 1, and no start record, loop thread, capture,
\* archive write or end record ever exists.
C1_NoEndpointExitsBeforeLoop ==
    NoEndpoint =>
        /\ mainPc \in {"main", "construct", "exited"}
        /\ mainPc = "exited" => exitCode = 1
        /\ ~startRecord
        /\ ~running
        /\ loop = IdleLoop
        /\ iterations = 0
        /\ archive = << >>
        /\ endRecord = NoRecord

\* a document with an empty webhook made load_config exit with status 1
C1_Witness ==
    /\ configFile.state = "ok"
    /\ configFile.doc.webhook_url = ""
    /\ mainPc = "exited"
    /\ exitCode = 1

----------------------------------------------------------------------------
(* C2 *)

\* C2 as stated: with max_captures = N > 0 the loop stops after exactly N
\* iterations (N calls of capture_and_process), whatever their outcome.
C2_ExactlyNIterations ==
    (config.max_captures > 0 /\ CeilingStop) => iterations = config.max_captures

\* C2, amended: with max_captures = N > 0 the loop goes on while the counter is
\* below N and stops (running set to false) in the iteration in which the
\* counter reaches N; by then N iterations have completed the pipeline and every
\* other iteration begun ended in a failed capture or a raised exception.
C2_StopsWhenCounterReachesN ==
    config.max_captures > 0 =>
        /\ CeilingStop =>
              /\ capture_count = config.max_captures
              /\ iterations - failed = config.max_captures
              /\ iterations >= config.max_captures
        /\ loop.pc = "sleep" => capture_count < config.max_captures
        /\ loop.pc \in {"stop_record", "stop_join"} => ~running

\* the loop stops at the ceiling after more than N iterations
C2_Witness ==
    /\ config.max_captures = 2
    /\ loop.pc = "stop_join"
    /\ iterations = 3
    /\ failed = 1

----------------------------------------------------------------------------
(* C3 *)

\* C3: with max_captures = N > 0 and no termination signal, once the process has
\* ended the session has stopped through the ceiling and its session-end record
\* reports total_captures = N.
C3_EndRecordReportsN ==
    (config.max_captures > 0 /\ ~signalled /\ exitCode = 0) =>
        endRecord = config.max_captures

----------------------------------------------------------------------------
(* C4 *)

\* C4: every iteration makes exactly one capture attempt, and an iteration
\* whose capture failed makes no archive write and no delivery attempt.
C4_OneCaptureAndSkipOnFailure ==
    /\ loop.pc = "capture" => loop.nCapture = 0
    /\ (iterations > 0 /\ loop.pc # "capture") => loop.nCapture = 1
    /\ loop.outcome = "capture_failed" =>
          /\ loop.nArchive = 0
          /\ loop.nPost = 0
          /\ IterationOver

\* an iteration whose capture failed is over
C4_Witness ==
    /\ loop.outcome = "capture_failed"
    /\ loop.pc = "sleep"
    /\ loop.nCapture = 1

----------------------------------------------------------------------------
(* C5 *)

\* C5: an iteration that reached the delivery step has increased the counter by
\* exactly 1 when it is over, whether the endpoint answered 200/204, answered
\* another status or the request raised; and no step ever decreases or resets
\* the counter.
C5_CounterPlusOnePerDelivery ==
    /\ [](/\ (IterationOver /\ loop.outcome \in DeliveryOutcomes) =>
                capture_count = loop.entryCount + 1
          /\ loop.pc \in {"send", "increment"} => capture_count = loop.entryCount)
    /\ [][capture_count' = capture_count \/ capture_count' = capture_count + 1]_vars

\* an iteration whose request raised is over and the counter has gone from 1 to 2
C5_Witness ==
    /\ IterationOver
    /\ loop.outcome = "transport_error"
    /\ loop.entryCount = 1
    /\ capture_count = 2

----------------------------------------------------------------------------
(* C6 *)

\* C6: an iteration whose capture succeeded (and whose encoding did not raise)
\* has attempted exactly one HTTP POST when it is over, whatever the location
\* lookup and the archive write gave.
C6_OnePostPerCapture ==
    (IterationOver /\ loop.outcome \notin {"none", "capture_failed", "raised"}) =>
        loop.nPost = 1

----------------------------------------------------------------------------
(* C7 *)

\* outcomes of an iteration whose delivery failed
FailedDelivery == {"http_error", "transport_error"}

\* C7: a failed delivery is not retried (at most one POST per iteration), the
\* iteration completes (the counter is incremented), and the iteration after it
\* begins after the capture_interval sleep, not after the 60 s error pause.
C7_NoRetryNormalInterval ==
    /\ loop.nPost <= 1
    /\ (IterationOver /\ loop.outcome \in FailedDelivery) =>
          capture_count = loop.entryCount + 1
    /\ (loop.pc = "capture" /\ loop.prev \in FailedDelivery) =>
          loop.lastSleep = "interval"

----------------------------------------------------------------------------
(* C8 *)

\* C8: no two archive writes of a session use the same capture index.
C8_ArchiveIndexUnique ==
    \A i, j \in DOMAIN archive : i # j => archive[i][1] # archive[j][1]

----------------------------------------------------------------------------
(* C9 *)

\* outcomes of an iteration in which a pipeline step raised an exception
RaisedOutcomes == {"raised", "transport_error", "embed_error"}

\* C9 as stated: after an iteration in which a pipeline step raised, the loop
\* sleeps 60 s before the next iteration.
C9_PauseAfterPipelineException ==
    (loop.pc = "capture" /\ loop.prev \in RaisedOutcomes) =>
        loop.lastSleep = "pause"

\* C9, amended: an exception raised in a pipeline step is caught inside the
\* pipeline (send_to_discord or capture_and_process), the call returns normally
\* and the loop takes its ordinary path: the next iteration begins after the
\* capture_interval sleep.  The 60 s pause follows only an exception raised in
\* the loop body itself: the sleep's ValueError for a negative capture_interval,
\* or the join of stop() at the ceiling.
C9_ExceptionContainedInPipeline ==
    /\ (loop.pc = "capture" /\ loop.prev \in RaisedOutcomes) =>
          loop.lastSleep = IF config.capture_interval < 0 THEN "pause"
                           ELSE "interval"
    /\ (loop.pc = "pause" /\ loop.outcome \in RaisedOutcomes) =>
          (config.capture_interval < 0 \/ CeilingReached)
    /\ loop.outcome \in RaisedOutcomes => IterationOver \/ loop.pc = "increment"

\* the iteration after one whose encoding raised begins after the interval sleep
C9_Witness ==
    /\ loop.pc = "capture"
    /\ loop.prev = "raised"
    /\ loop.lastSleep = "interval"
    /\ config.capture_interval = DefaultInterval

----------------------------------------------------------------------------
(* C10 *)

\* C10: the loop thread ends only after a termination signal or at the
\* ceiling, and after every iteration, failed or not, a further iteration
\* begins unless a termination signal arrived or the ceiling was reached
\* (iterations beyond MaxIter are not explored).
C10_LoopSurvivesFailures ==
    /\ [](loop.pc = "done" => (~running /\ (signalled \/ CeilingReached)))
    /\ (loop.pc = "ceiling" /\ iterations < MaxIter)
          ~> (loop.pc = "capture" \/ signalled \/ CeilingReached)

\* a further iteration has begun after one whose capture failed and one whose
\* pipeline raised
C10_Witness ==
    /\ loop.pc = "capture"
    /\ loop.prev = "capture_failed"
    /\ iterations = 3
    /\ failed = 2
    /\ ~signalled

----------------------------------------------------------------------------
(* C14 *)

\* C14: when a termination signal has stopped the session and the process has
\* exited, the total_captures of the session-end record equals the capture
\* counter: no iteration incremented the counter after the record was written.
C14_EndRecordMatchesCounterAtExit ==
    (signalled /\ sigPc = "done" /\ exitCode = 0 /\ endRecord # NoRecord)
        => endRecord = capture_count

----------------------------------------------------------------------------
(* C15 *)

\* C15: whenever the scheduler loop runs, the numeric settings of the loaded
\* configuration are non-negative.
C15_NumericSettingsNonNegative ==
    loop.pc \notin {"idle", "done"}
        => /\ config.capture_interval >= 0
           /\ config.max_captures >= 0
           /\ config.start_delay >= 0

----------------------------------------------------------------------------
(* C16 *)

\* C16: nothing of a session's loop (the thread itself, an iteration, an archive
\* write, a delivery attempt, a counted capture) exists before the session-start
\* record has been written, and a process that ended because writing the start
\* record failed never started the loop thread.
C16_StartRecordBeforeLoop ==
    /\ (\/ loop # IdleLoop
        \/ iterations > 0
        \/ archive # << >>
        \/ delivered # << >>
        \/ capture_count > 0) => startRecord
    /\ (mainPc = "exited" /\ running /\ ~startRecord)
          => (loop = IdleLoop /\ exitCode = 1)

\* start() raised the running flag, failed to write the start record and the
\* process ended without a loop thread
C16_Witness ==
    /\ mainPc = "exited"
    /\ exitCode = 1
    /\ running
    /\ ~startRecord
    /\ loop = IdleLoop
    /\ ~signalled

----------------------------------------------------------------------------
(* C17 *)

\* C17: of any two delivery attempts (HTTP POSTs) of the session, the later one
\* carries a strictly larger capture number than the earlier one.
C17_DeliveriesInCounterOrder ==
    \A i, j \in DOMAIN delivered : i < j => delivered[i] < delivered[j]

\* two delivery attempts were made, the second was refused by the endpoint and
\* a third capture is on its way
C17_Witness ==
    /\ Len(delivered) = 2
    /\ delivered[1] < delivered[2]
    /\ loop.pc = "capture"
    /\ loop.prev = "http_error"

----------------------------------------------------------------------------
(* C18 *)

\* C18: the loop never enters its error-recovery pause on account of the stop()
\* it called at the ceiling: with no termination signal, the loop is in the 60 s
\* pause only while the session is still running.
C18_CeilingStopLeavesThroughBreak ==
    (loop.pc = "pause" /\ ~signalled) => running

----------------------------------------------------------------------------
(* C12 *)

\* C12: every encoding is produced at the starting quality lowered by a whole
\* number of steps of 10, and for a starting quality of at least 10 none is
\* produced at a quality below the floor of 10.
C12_NoEncodingBelowFloor ==
    /\ \A q \in enc.produced :
          q <= enc.start /\ (enc.start - q) % QualityStep = 0
    /\ enc.start >= QualityFloor => \A q \in enc.produced : q >= QualityFloor

----------------------------------------------------------------------------
(* C11 *)

\* the qualities of at least 10 that the loop can reach from the starting one
ReachableQualities(e) ==
    {q \in QualityFloor..e.start : (e.start - q) % QualityStep = 0}

\* the encoding of the image at quality q is within the ceiling
Fits(e, q) == EncodedSize(e.weight, q) <= e.max_size_mb * Mebibyte

\* C11: the buffer the encoder returns is within the size ceiling whenever the
\* encoding at some quality of at least 10 reachable from the starting quality
\* fits, and otherwise it is the encoding at the floor quality of 10 (stated
\* for the starting qualities of at least 10, from which the floor is defined).
C11_ReturnFitsOrIsFloorEncoding ==
    (enc.pc = "done" /\ enc.start >= QualityFloor) =>
        IF \E q \in ReachableQualities(enc) : Fits(enc, q)
        THEN enc.bytes <= enc.max_size_mb * Mebibyte
        ELSE /\ enc.quality = QualityFloor
             /\ enc.bytes = EncodedSize(enc.weight, QualityFloor)

----------------------------------------------------------------------------
(* C13 *)

\* C13: at any time at most one loop thread of the logger instance is inside
\* capture_and_process, whatever start(), stop() and signal events came before.
C13_OnePipelineInFlight ==
    Cardinality({i \in DOMAIN api.workers : api.workers[i] = "pipeline"}) <= 1

====
